---- MODULE Spec2Model ----
(***************************************************************************)
(* Template matching by 2-D cross-correlation                              *)
(* (computer_vision/template_matching/cross_correlation.py).               *)
(*                                                                         *)
(* An ndarray is a record [shape |-> <<h, w>>, data |-> d] with d[r][c]    *)
(* the sample at row r, column c, both counted from 0 as in numpy.         *)
(* Samples are integers.  Where the code produces fractions (np.mean,      *)
(* x - x.mean()) the model keeps them exact: a mean surface holds reduced  *)
(* fractions <<num, den>>, the sample generator works on samples scaled by *)
(* a common denominator.  Floating-point rounding is not modelled.         *)
(*                                                                         *)
(* The library routines the code calls are modelled by what they compute:  *)
(*   signal.correlate2d(boundary='symm', mode='same')  exactly;            *)
(*   ndimage.rotate(reshape=True)  output shape and output-to-input        *)
(*     coordinate map as in the library, with sine and cosine from a table *)
(*     in units of 1/TrigScale; the value of an output sample is the input *)
(*     sample nearest to the mapped coordinate (0 outside the input)       *)
(*     instead of a cubic-spline interpolant.  At multiples of 90 degrees, *)
(*     0 included, the mapped coordinates are input grid points and the    *)
(*     two agree.                                                          *)
(***************************************************************************)
EXTENDS Integers, Sequences, FiniteSets, TLC

\* ------------------------------------------------------------------ bounds

\* filter samples are drawn from 0..MaxFilterVal
MaxFilterVal == 1

\* a sweep whose angle never reaches FullTurn (angle <= 0) is followed for
\* MaxIter iterations
MaxIter == 3

\* dataset samples (grey levels) are drawn from 0..MaxPixel
MaxPixel == 1

\* background samples
BackgroundLevels == {-1, 1}

\* the draws of rng.standard_normal
NoiseDraws == {-1, 1}

\* ------------------------------------------------------------------ arrays

Rows(a) == 0 .. (a.shape[1] - 1)

Cols(a) == 0 .. (a.shape[2] - 1)

Array(h, w, F(_, _)) ==
    [shape |-> <<h, w>>,
     data  |-> [r \in 0 .. (h - 1) |-> [c \in 0 .. (w - 1) |-> F(r, c)]]]

\* every h x w array with samples in vals
Arrays(h, w, vals) ==
    { [shape |-> <<h, w>>, data |-> d] :
        d \in [0 .. (h - 1) -> [0 .. (w - 1) -> vals]] }

Abs(x) == IF x < 0 THEN -x ELSE x

Max2(x, y) == IF x >= y THEN x ELSE y

RECURSIVE GCD(_, _)
GCD(x, y) == IF y = 0 THEN x ELSE GCD(y, x % y)

\* the exact quotient n / d, d > 0, as a reduced fraction
Frac(n, d) ==
    LET g == GCD(Abs(n), d) IN <<n \div g, d \div g>>

\* the Python value None
None == [tag |-> "None"]

NDArray(a) == [tag |-> "ndarray", array |-> a]

Tuple2(x, y) == [tag |-> "tuple", items |-> <<x, y>>]

\* ------------------------------------------------- signal.correlate2d

\* boundary='symm': an index outside 0..n-1 is reflected across the border
SymmIndex(i, n) ==
    IF i < 0 THEN -1 - i
    ELSE IF i >= n THEN n + n - 1 - i
    ELSE i

\* mode='full': the shape of the full correlation
FullShape(in1, in2) ==
    <<in1.shape[1] + in2.shape[1] - 1, in1.shape[2] + in2.shape[2] - 1>>

\* mode='same': the output has the shape of in1 and is centred with respect
\* to the full correlation
SameShape(in1, in2) == in1.shape

RECURSIVE SumTo(_, _)
SumTo(F(_), n) == IF n < 0 THEN 0 ELSE F(n) + SumTo(F, n - 1)

correlate2d(in1, in2) ==
    LET Ns   == in1.shape
        Nwin == in2.shape
        Os   == SameShape(in1, in2)
        Cell(m, n) ==
            LET new_m == m - ((Nwin[1] - 1) \div 2)
                new_n == n - ((Nwin[2] - 1) \div 2)
                Term(j, k) ==
                    in1.data[SymmIndex(new_m + j, Ns[1])]
                            [SymmIndex(new_n + k, Ns[2])] * in2.data[j][k]
                RowSum(j) ==
                    LET T(k) == Term(j, k) IN SumTo(T, Nwin[2] - 1)
            IN  SumTo(RowSum, Nwin[1] - 1)
    IN  Array(Os[1], Os[2], Cell)

\* ------------------------------------------------- np.argmax, np.unravel_index

\* the array read in row-major order
Ravel(a) == [k \in 0 .. (a.shape[1] * a.shape[2] - 1) |->
                a.data[k \div a.shape[2]][k % a.shape[2]]]

\* flat index of the last occurrence of the maximum
ArgMaxLast(flat) ==
    CHOOSE k \in DOMAIN flat :
        /\ \A l \in DOMAIN flat : flat[l] <= flat[k]
        /\ \A l \in DOMAIN flat : l > k => flat[l] < flat[k]

\* flat index of the first occurrence of the maximum
ArgMax(flat) ==
    CHOOSE k \in DOMAIN flat :
        /\ \A l \in DOMAIN flat : flat[l] <= flat[k]
        /\ \A l \in DOMAIN flat : l < k => flat[l] < flat[k]

unravel_index(k, shape) == <<k \div shape[2], k % shape[2]>>

\* ------------------------------------------------- cross_correlation

\* the pair is returned in array order, (row, column)
MaxLocUnswapped(yx) == yx

\* the pair (x, y) returned for the cell (row y, column x)
MaxLocOf(yx) == <<yx[2], yx[1]>>

cross_correlation(background, filt, return_max_loc) ==
    LET corr == correlate2d(background, filt)
    IN  IF return_max_loc
        THEN LET yx == unravel_index(ArgMax(Ravel(corr)), corr.shape)
             IN  <<corr, MaxLocOf(yx)>>
        ELSE <<corr>>

\* ------------------------------------------------- ndimage.rotate

TrigScale == 10000

SinTable ==
    <<0, 175, 349, 523, 698, 872, 1045, 1219, 1392, 1564, 1736, 1908, 2079,
      2250, 2419, 2588, 2756, 2924, 3090, 3256, 3420, 3584, 3746, 3907, 4067,
      4226, 4384, 4540, 4695, 4848, 5000, 5150, 5299, 5446, 5592, 5736, 5878,
      6018, 6157, 6293, 6428, 6561, 6691, 6820, 6947, 7071, 7193, 7314, 7431,
      7547, 7660, 7771, 7880, 7986, 8090, 8192, 8290, 8387, 8480, 8572, 8660,
      8746, 8829, 8910, 8988, 9063, 9135, 9205, 9272, 9336, 9397, 9455, 9511,
      9563, 9613, 9659, 9703, 9744, 9781, 9816, 9848, 9877, 9903, 9925, 9945,
      9962, 9976, 9986, 9994, 9998, 10000>>

\* sine of deg degrees, times TrigScale
Sindg(deg) ==
    LET a == deg % 360
    IN  IF a <= 90 THEN SinTable[a + 1]
        ELSE IF a <= 180 THEN SinTable[180 - a + 1]
        ELSE IF a <= 270 THEN -SinTable[a - 180 + 1]
        ELSE -SinTable[360 - a + 1]

Cosdg(deg) == Sindg(deg + 90)

\* floor(x + 0.5) for x = n / (2 * TrigScale)
RoundHalf(n) == (n + TrigScale) \div (2 * TrigScale)

\* reshape=True: the shape of the bounding box of the rotated input
RotatedShape(shape, deg) ==
    LET c == Abs(Cosdg(deg))
        s == Abs(Sindg(deg))
    IN  <<RoundHalf(2 * (c * shape[1] + s * shape[2])),
          RoundHalf(2 * (s * shape[1] + c * shape[2]))>>

rotate(input, deg) ==
    LET c   == Cosdg(deg)
        s   == Sindg(deg)
        h   == input.shape[1]
        w   == input.shape[2]
        out == RotatedShape(input.shape, deg)
        Sample(r, q) ==
            LET dr == 2 * r - (out[1] - 1)
                dq == 2 * q - (out[2] - 1)
                ir == RoundHalf((h - 1) * TrigScale + c * dr + s * dq)
                iq == RoundHalf((w - 1) * TrigScale - s * dr + c * dq)
            IN  IF ir \in 0 .. (h - 1) /\ iq \in 0 .. (w - 1)
                THEN input.data[ir][iq]
                ELSE 0
    IN  Array(out[1], out[2], Sample)

\* ------------------------------------------------- np.mean, np.max (axis=0)

RECURSIVE SeqSum(_, _, _)
SeqSum(arrays, r, c) ==
    IF arrays = <<>> THEN 0
    ELSE Head(arrays).data[r][c] + SeqSum(Tail(arrays), r, c)

RECURSIVE SeqMax(_, _, _)
SeqMax(arrays, r, c) ==
    IF Len(arrays) = 1 THEN arrays[1].data[r][c]
    ELSE Max2(Head(arrays).data[r][c], SeqMax(Tail(arrays), r, c))

Mean(arrays) ==
    LET F(r, c) == Frac(SeqSum(arrays, r, c), Len(arrays))
    IN  Array(arrays[1].shape[1], arrays[1].shape[2], F)

Maximum(arrays) ==
    LET F(r, c) == SeqMax(arrays, r, c)
    IN  Array(arrays[1].shape[1], arrays[1].shape[2], F)


\* ------------------------------------------------- scipy_example

Size(a) == a.shape[1] * a.shape[2]

SumAll(a) ==
    LET RowSum(r) == LET T(c) == a.data[r][c] IN SumTo(T, a.shape[2] - 1)
    IN  SumTo(RowSum, a.shape[1] - 1)

Scaled(a, k) ==
    LET F(r, c) == a.data[r][c] * k IN Array(a.shape[1], a.shape[2], F)

Minus(a, v) ==
    LET F(r, c) == a.data[r][c] - v IN Array(a.shape[1], a.shape[2], F)

Plus(a, b) ==
    LET F(r, c) == a.data[r][c] + b.data[r][c]
    IN  Array(a.shape[1], a.shape[2], F)

\* a[rows[1]:rows[2], cols[1]:cols[2]]
SubRegion(a, rows, cols) ==
    LET F(r, c) == a.data[rows[1] + r][cols[1] + c]
    IN  Array(rows[2] - rows[1], cols[2] - cols[1], F)

\* the dataset image is FaceShape instead of 768 x 1024, and the sub-region
\* [300:365, 670:750] becomes [FilterRows, FilterCols]
FaceShape == <<1, 3>>

FilterRows == <<0, 1>>

FilterCols == <<1, 3>>

\* standard deviation of the noise
NoiseStd == 50

\* The generator's samples are kept as integers in units of 1/SampleScale,
\* which makes both means below exact.
SampleScale ==
    FaceShape[1] * FaceShape[2]
        * (FilterRows[2] - FilterRows[1]) * (FilterCols[2] - FilterCols[1])

\* a.mean(), in units of 1/SampleScale
MeanOf(a) == SumAll(a) \div Size(a)

\* the filter is cut out of the noisy background
scipy_example_late_filter(dataset, normalize, add_noise, noise) ==
    LET img   == Scaled(dataset, SampleScale)
        bg0   == IF normalize THEN Minus(img, MeanOf(img)) ELSE img
        bg1   == IF add_noise
                 THEN Plus(bg0, Scaled(noise, NoiseStd * SampleScale))
                 ELSE bg0
        sub   == SubRegion(bg1, FilterRows, FilterCols)
        filt  == IF normalize THEN Minus(sub, MeanOf(sub)) ELSE sub
    IN  <<bg1, filt>>

\* noise holds the draws of rng.standard_normal, used only when add_noise
scipy_example(dataset, normalize, add_noise, noise) ==
    LET img   == Scaled(dataset, SampleScale)
        bg0   == IF normalize THEN Minus(img, MeanOf(img)) ELSE img
        sub   == SubRegion(bg0, FilterRows, FilterCols)
        filt  == IF normalize THEN Minus(sub, MeanOf(sub)) ELSE sub
        bg1   == IF add_noise
                 THEN Plus(bg0, Scaled(noise, NoiseStd * SampleScale))
                 ELSE bg0
    IN  <<bg1, filt>>

\* ------------------------------------------------------------------ state

VARIABLES
    background_image,   \* rotational_cc: argument
    filter,             \* rotational_cc: argument
    angle,              \* rotational_cc: argument, the angle increment
    return_average,     \* rotational_cc: argument
    return_max,         \* rotational_cc: argument
    pc,                 \* rotational_cc: "call", "loop", "done" or "raised"
    filter_angle,       \* rotational_cc: local
    all_correlations,   \* rotational_cc: local
    max_locs,           \* rotational_cc: local
    rotated_filter,     \* rotational_cc: local
    result,             \* rotational_cc: the returned value, None before
    face,               \* the grey-level image datasets.face(gray=True)
    sample,             \* the latest call of scipy_example
    previous            \* the call of scipy_example before it

sweepVars == <<background_image, filter, angle, return_average, return_max,
               pc, filter_angle, all_correlations, max_locs, rotated_filter,
               result>>

sampleVars == <<face, sample, previous>>

vars == <<background_image, filter, angle, return_average, return_max,
          pc, filter_angle, all_correlations, max_locs, rotated_filter,
          result, face, sample, previous>>

\* ------------------------------------------------------------------ inputs

Backgrounds == Arrays(2, 3, BackgroundLevels)

\* a quarter turn makes a 1 x 2 filter 2 x 1, a third of a turn 2 x 2
Filters == Arrays(1, 2, 0 .. MaxFilterVal)

\* angle increments: negative, zero, dividing the full turn, not dividing
\* it, and the full turn itself
AngleSteps == {-90, 0, 90, 120, 360}

\* the end of the sweep
FullTurn == 360

EmptyArray == [shape |-> <<0, 0>>, data |-> <<>>]

NoCall == [called |-> FALSE]

SweepStart ==
    /\ pc = "call"
    /\ filter_angle = 0
    /\ all_correlations = <<>>
    /\ max_locs = <<>>
    /\ rotated_filter = EmptyArray
    /\ result = None

SampleIdle ==
    /\ sample = NoCall
    /\ previous = NoCall

\* a call of rotational_cc
Init ==
    /\ background_image \in Backgrounds
    /\ filter \in Filters
    /\ angle \in AngleSteps
    /\ return_average \in BOOLEAN
    /\ return_max \in BOOLEAN
    /\ SweepStart
    /\ face = EmptyArray
    /\ SampleIdle

\* ------------------------------------------------------------------ rotational_cc

\* line 79, the assertion fails
AssertFail ==
    /\ pc = "call"
    /\ ~(angle < FullTurn)
    /\ pc' = "raised"
    /\ UNCHANGED <<background_image, filter, angle, return_average, return_max,
                   filter_angle, all_correlations, max_locs, rotated_filter,
                   result>>
    /\ UNCHANGED sampleVars

\* the sweep starts one step after 0
EnterAtStep ==
    /\ pc = "call"
    /\ angle < FullTurn
    /\ filter_angle' = angle
    /\ all_correlations' = <<>>
    /\ max_locs' = <<>>
    /\ pc' = "loop"
    /\ UNCHANGED <<background_image, filter, angle, return_average, return_max,
                   rotated_filter, result>>
    /\ UNCHANGED sampleVars

\* lines 79-82
Enter ==
    /\ pc = "call"
    /\ angle < FullTurn
    /\ filter_angle' = 0
    /\ all_correlations' = <<>>
    /\ max_locs' = <<>>
    /\ pc' = "loop"
    /\ UNCHANGED <<background_image, filter, angle, return_average, return_max,
                   rotated_filter, result>>
    /\ UNCHANGED sampleVars

\* the loop also runs at FullTurn
LoopTestInclusive == filter_angle <= FullTurn

\* line 84
LoopTest == filter_angle < FullTurn

\* a sweep that cannot end is followed for MaxIter iterations only
Followed == IF angle > 0 THEN TRUE ELSE Len(all_correlations) < MaxIter

\* the peak location is put in front of the list
LoopBodyPrepend ==
    /\ pc = "loop"
    /\ LoopTest
    /\ Followed
    /\ LET rf == rotate(filter, filter_angle)
           cm == cross_correlation(background_image, rf, TRUE)
       IN  /\ rotated_filter' = rf
           /\ all_correlations' = Append(all_correlations, cm[1])
           /\ max_locs' = <<cm[2]>> \o max_locs
    /\ filter_angle' = filter_angle + angle
    /\ UNCHANGED <<background_image, filter, angle, return_average, return_max,
                   pc, result>>
    /\ UNCHANGED sampleVars

\* the rotated filter replaces the filter and is turned one step further in
\* the next iteration
LoopBodyInPlace ==
    /\ pc = "loop"
    /\ LoopTest
    /\ Followed
    /\ LET rf == rotate(filter, IF filter_angle = 0 THEN 0 ELSE angle)
           cm == cross_correlation(background_image, rf, TRUE)
       IN  /\ rotated_filter' = rf
           /\ filter' = rf
           /\ all_correlations' = Append(all_correlations, cm[1])
           /\ max_locs' = Append(max_locs, cm[2])
    /\ filter_angle' = filter_angle + angle
    /\ UNCHANGED <<background_image, angle, return_average, return_max,
                   pc, result>>
    /\ UNCHANGED sampleVars

\* lines 84-89, one iteration
LoopBody ==
    /\ pc = "loop"
    /\ LoopTest
    /\ Followed
    /\ LET rf == rotate(filter, filter_angle)
           cm == cross_correlation(background_image, rf, TRUE)
       IN  /\ rotated_filter' = rf
           /\ all_correlations' = Append(all_correlations, cm[1])
           /\ max_locs' = Append(max_locs, cm[2])
    /\ filter_angle' = filter_angle + angle
    /\ UNCHANGED <<background_image, filter, angle, return_average, return_max,
                   pc, result>>
    /\ UNCHANGED sampleVars

\* lines 84 and 91-98: the loop is over and value is returned
Return(value) ==
    /\ pc = "loop"
    /\ ~LoopTest
    /\ result' = value
    /\ pc' = "done"
    /\ UNCHANGED <<background_image, filter, angle, return_average, return_max,
                   filter_angle, all_correlations, max_locs, rotated_filter>>
    /\ UNCHANGED sampleVars

\* return_average is tested alone first
ReturnBothAverageOnly ==
    /\ return_average /\ return_max
    /\ Return(NDArray(Mean(all_correlations)))

\* lines 91-92
ReturnBoth ==
    /\ return_average /\ return_max
    /\ Return(Tuple2(Mean(all_correlations), Maximum(all_correlations)))

\* lines 93-94
ReturnAverage ==
    /\ return_average /\ ~return_max
    /\ Return(NDArray(Mean(all_correlations)))

\* lines 95-96
ReturnMax ==
    /\ ~return_average /\ return_max
    /\ Return(NDArray(Maximum(all_correlations)))

\* line 98
ReturnLists ==
    /\ ~return_average /\ ~return_max
    /\ Return(Tuple2(all_correlations, max_locs))

Next ==
    \/ AssertFail
    \/ Enter
    \/ LoopBody
    \/ ReturnBoth
    \/ ReturnAverage
    \/ ReturnMax
    \/ ReturnLists

Spec == Init /\ [][Next]_vars

\* ------------------------------------------------- the sweep over every step

SweepBackground == Array(2, 3, LAMBDA r, c : IF (r + 2 * c) % 3 = 0 THEN 1 ELSE -1)

SweepFilters ==
    { Array(1, 2, LAMBDA r, c : 1 - c), Array(2, 1, LAMBDA r, c : 1 + r) }

\* every angle increment from 1 to FullTurn
SweepInit ==
    /\ background_image = SweepBackground
    /\ filter \in SweepFilters
    /\ angle \in 1 .. FullTurn
    /\ return_average \in BOOLEAN
    /\ return_max \in BOOLEAN
    /\ SweepStart
    /\ face = EmptyArray
    /\ SampleIdle

SweepSpec == SweepInit /\ [][Next]_vars

\* ------------------------------------------------- calls of scipy_example

NoiseArrays == Arrays(FaceShape[1], FaceShape[2], NoiseDraws)

Faces == Arrays(FaceShape[1], FaceShape[2], 0 .. MaxPixel)

SampleInit ==
    /\ background_image = EmptyArray
    /\ filter = EmptyArray
    /\ angle = 10
    /\ return_average = FALSE
    /\ return_max = FALSE
    /\ SweepStart
    /\ face \in Faces
    /\ SampleIdle

\* lines 22-40, one call
ScipyExample ==
    \E normalize \in BOOLEAN, add_noise \in BOOLEAN :
        \E noise \in IF add_noise THEN NoiseArrays ELSE {EmptyArray} :
            LET bf == scipy_example(face, normalize, add_noise, noise)
            IN  /\ sample' = [called |-> TRUE,
                              normalize |-> normalize,
                              add_noise |-> add_noise,
                              background_image |-> bf[1],
                              filter |-> bf[2]]
                /\ previous' = sample
                /\ UNCHANGED face
                /\ UNCHANGED sweepVars

SampleNext == ScipyExample

SampleSpec == SampleInit /\ [][SampleNext]_vars

\* ------------------------------------------------------------------ claims

Surfaces == 1 .. Len(all_correlations)

Height(a) == a.shape[1]

Width(a) == a.shape[2]

\* the largest sample of a
GlobalMax(a) ==
    CHOOSE v \in { a.data[r][c] : r \in Rows(a), c \in Cols(a) } :
        \A r \in Rows(a), c \in Cols(a) : a.data[r][c] <= v

\* m holds, cell by cell, the exact mean of the collected surfaces
IsMeanSurface(m) ==
    /\ m.shape = background_image.shape
    /\ \A r \in Rows(m), c \in Cols(m) :
          m.data[r][c][1] * Len(all_correlations)
              = m.data[r][c][2] * SeqSum(all_correlations, r, c)

\* m holds, cell by cell, the largest value among the collected surfaces
IsMaxSurface(m) ==
    /\ m.shape = background_image.shape
    /\ \A r \in Rows(m), c \in Cols(m) :
          /\ \A i \in Surfaces : all_correlations[i].data[r][c] <= m.data[r][c]
          /\ \E i \in Surfaces : all_correlations[i].data[r][c] = m.data[r][c]

\* C1: rotational_cc has no result before the loop has ended; then both
\* flags give the pair (mean surface, max surface) and no peak list,
\* return_average alone the mean surface, return_max alone the max surface,
\* neither flag the pair (list of surfaces, list of peak locations).
C1_ResultSelection ==
    /\ pc # "done" => result = None
    /\ pc = "done" =>
          /\ ~(filter_angle < FullTurn)
          /\ (return_average /\ return_max) =>
                /\ result.tag = "tuple"
                /\ Len(result.items) = 2
                /\ IsMeanSurface(result.items[1])
                /\ IsMaxSurface(result.items[2])
          /\ (return_average /\ ~return_max) =>
                /\ result.tag = "ndarray"
                /\ IsMeanSurface(result.array)
          /\ (~return_average /\ return_max) =>
                /\ result.tag = "ndarray"
                /\ IsMaxSurface(result.array)
          /\ (~return_average /\ ~return_max) =>
                /\ result.tag = "tuple"
                /\ result.items = <<all_correlations, max_locs>>

\* both flags, several surfaces, and a mean that differs from the maximum
C1_Witness ==
    /\ pc = "done"
    /\ return_average /\ return_max
    /\ Len(all_correlations) >= 3
    /\ \E r \in Rows(background_image), c \in Cols(background_image) :
          /\ result.items[1].data[r][c][2] > 1
          /\ result.items[2].data[r][c] > all_correlations[1].data[r][c]

\* C2: an angle step of 0, below 0, or of 360 and more raises an error
\* before any rotation or correlation: the sweep is never entered and no
\* surface is collected.
C2_InvalidStepRaises ==
    (angle <= 0 \/ angle >= FullTurn) =>
        /\ pc \in {"call", "raised"}
        /\ all_correlations = <<>>
        /\ max_locs = <<>>

\* the guards of Next: the call can start or fail, the loop can iterate or
\* return
CanStep ==
    \/ pc = "call"
    \/ pc = "loop" /\ LoopTest /\ Followed
    \/ pc = "loop" /\ ~LoopTest

\* C3: with 0 < step < 360 the sweep ends, having tested 0, step, 2 * step,
\* ... in that order, ceil(360 / step) angles in all, each below 360.  (The
\* sweep ends: n iterations bring the angle to n * step, there are never
\* more than ceil(360 / step) of them, and until the function has returned
\* a next step is always possible.)
C3_SweepTerminates ==
    (0 < angle /\ angle < FullTurn) =>
        LET n    == Len(all_correlations)
            ceil == (FullTurn + angle - 1) \div angle
        IN  /\ filter_angle = n * angle
            /\ n <= ceil
            /\ pc = "done" \/ CanStep
            /\ pc # "raised"
            /\ n > 0 =>
                  /\ (n - 1) * angle < FullTurn
                  /\ rotated_filter = rotate(filter, (n - 1) * angle)
            /\ pc = "done" =>
                  /\ n = ceil
                  /\ angle = 10 => n = 36 /\ (n - 1) * angle = 350
                  /\ angle = 7 => n = 52 /\ (n - 1) * angle = 357

\* a sweep with step 7 has ended
C3_Witness ==
    /\ pc = "done"
    /\ angle = 7
    /\ Len(all_correlations) = 52

\* C4: every peak location (x, y) lies inside the background, x below its
\* width and y below its height, and the surface at row y, column x holds
\* the surface's global maximum.
C4_PeakInBounds ==
    \A i \in 1 .. Len(max_locs) :
        LET x == max_locs[i][1]
            y == max_locs[i][2]
        IN  /\ 0 <= x /\ x < Width(background_image)
            /\ 0 <= y /\ y < Height(background_image)
            /\ all_correlations[i].data[y][x] = GlobalMax(all_correlations[i])

\* a peak whose x is not a valid row number, in a surface that is not flat
C4_Witness ==
    \E i \in 1 .. Len(max_locs) :
        /\ max_locs[i][1] >= Height(background_image)
        /\ \E r \in Rows(all_correlations[i]), c \in Cols(all_correlations[i]) :
              all_correlations[i].data[r][c] < GlobalMax(all_correlations[i])

\* C5: every collected surface has the background's shape, whatever the
\* shape of the rotated filter, and so have the mean and max surfaces.
C5_SurfaceShape ==
    /\ \A i \in Surfaces : all_correlations[i].shape = background_image.shape
    /\ (pc = "done" /\ result.tag = "ndarray") =>
          result.array.shape = background_image.shape
    /\ (pc = "done" /\ return_average /\ return_max) =>
          /\ result.items[1].shape = background_image.shape
          /\ result.items[2].shape = background_image.shape

\* a finished sweep whose last rotated filter has another shape than the
\* filter, which itself has another shape than the background
C5_Witness ==
    /\ pc = "done"
    /\ return_average
    /\ Len(all_correlations) >= 2
    /\ rotated_filter.shape # filter.shape
    /\ filter.shape # background_image.shape

\* C6: among the cells that hold the maximum the reported one comes first
\* in row-major order, and the cell (row r, column c) is reported as
\* (x, y) = (c, r).
C6_FirstMaxRowMajor ==
    \A i \in 1 .. Len(max_locs) :
        LET s == all_correlations[i]
            c == max_locs[i][1]
            r == max_locs[i][2]
        IN  /\ r \in Rows(s) /\ c \in Cols(s)
            /\ \A r2 \in Rows(s), c2 \in Cols(s) :
                  /\ s.data[r2][c2] <= s.data[r][c]
                  /\ s.data[r2][c2] = s.data[r][c] =>
                        (r < r2 \/ (r = r2 /\ c <= c2))

\* the maximum is held by several cells, one of them in a later row and an
\* earlier column than the reported one
C6_Witness ==
    \E i \in 1 .. Len(max_locs) :
        LET s == all_correlations[i]
            c == max_locs[i][1]
            r == max_locs[i][2]
        IN  \E r2 \in Rows(s), c2 \in Cols(s) :
                /\ r2 > r /\ c2 < c
                /\ s.data[r2][c2] = s.data[r][c]

\* C7: the first surface and the first peak location of the sweep are those
\* of cross_correlation called on the background and the unrotated filter.
C7_FirstIsDirectCall ==
    LET direct == cross_correlation(background_image, filter, TRUE)
    IN  /\ Len(all_correlations) >= 1 =>
              /\ all_correlations[1] = direct[1]
              /\ max_locs[1] = direct[2]
        /\ (pc = "done" /\ ~return_average /\ ~return_max) =>
              /\ result.items[1][1] = direct[1]
              /\ result.items[2][1] = direct[2]

\* a full-list result for a filter that a quarter turn changes
C7_Witness ==
    /\ pc = "done"
    /\ ~return_average /\ ~return_max
    /\ Len(result.items[1]) >= 2
    /\ rotate(filter, 90) # filter
    /\ result.items[1][2] # result.items[1][1]

\* C8: the two lists have the same length, the number of angles tested so
\* far; their i-th entries are the surface and the peak location of the
\* i-th angle (i - 1) * step, and the full-list result is these two lists.
C8_ParallelLists ==
    /\ Len(all_correlations) = Len(max_locs)
    /\ pc # "call" => filter_angle = Len(all_correlations) * angle
    /\ \A i \in Surfaces :
          LET at == cross_correlation(background_image,
                                      rotate(filter, (i - 1) * angle), TRUE)
          IN  /\ all_correlations[i] = at[1]
              /\ max_locs[i] = at[2]
    /\ (pc = "done" /\ ~return_average /\ ~return_max) =>
          /\ Len(result.items[1]) = Len(result.items[2])
          /\ \A i \in 1 .. Len(result.items[1]) :
                /\ result.items[1][i] = all_correlations[i]
                /\ result.items[2][i] = max_locs[i]

\* a full-list result whose peak locations are not all the same
C8_Witness ==
    /\ pc = "done"
    /\ ~return_average /\ ~return_max
    /\ Len(max_locs) >= 3
    /\ \E i \in 1 .. Len(max_locs) : max_locs[i] # max_locs[1]

\* C9: no step changes background_image or filter, and an iteration
\* correlates the background with the filter turned by the current total
\* angle.
C9_InputsUnchanged ==
    [][/\ background_image' = background_image
       /\ filter' = filter
       /\ Len(all_correlations') > Len(all_correlations) =>
             /\ rotated_filter' = rotate(filter, filter_angle)
             /\ all_correlations'[Len(all_correlations')]
                    = correlate2d(background_image, rotated_filter')]_vars

\* a finished sweep that has turned the filter into something else
C9_Witness ==
    /\ pc = "done"
    /\ Len(all_correlations) >= 3
    /\ rotated_filter # filter
    /\ all_correlations[2] # all_correlations[1]

\* C10: two calls of scipy_example with the same normalize return the same
\* filter whatever add_noise is, and the same background too when neither
\* adds noise.
C10_FilterIgnoresNoise ==
    (sample.called /\ previous.called
        /\ sample.normalize = previous.normalize) =>
            /\ sample.filter = previous.filter
            /\ (~sample.add_noise /\ ~previous.add_noise) =>
                  sample.background_image = previous.background_image

\* a noisy call after a clean one, with different backgrounds
C10_Witness ==
    /\ sample.called /\ previous.called
    /\ sample.normalize /\ previous.normalize
    /\ sample.add_noise /\ ~previous.add_noise
    /\ sample.background_image # previous.background_image
    /\ \E c \in Cols(sample.filter) : sample.filter.data[0][c] # 0

====
